---------------------------- MODULE Spec2Model ----------------------------
(***************************************************************************)
(* State-machine model of go-kafkaproxy's producer wrapper                 *)
(* (pkg/producer/producer.go) and its error taxonomy                       *)
(* (pkg/proxyerror/error.go).                                              *)
(*                                                                         *)
(* Go values are represented as follows.  A nilable value (pointer, error, *)
(* channel reference) is a sequence of length at most one: <<>> is nil and *)
(* <<v>> is the non-nil value v.  A channel created by Close() is named by *)
(* the index of its close sequence in closeSeqs; 0 names the nil channel.  *)
(*                                                                         *)
(* isClosed and isLoggingEnabled are plain booleans that several           *)
(* goroutines read and write without synchronisation.  A read that races   *)
(* with a write returns the value before or the value after it; both       *)
(* outcomes arise here from the two orders of the reading and the writing  *)
(* action.  Every action reads each flag at most once.                     *)
(*                                                                         *)
(* The Adapter (sarama's AsyncProducer) is outside the package: its        *)
(* constructor, its Close() and its Errors() channel are inputs chosen     *)
(* nondeterministically.  log.Fatal and a panic end the process: proc      *)
(* records which, and no action is enabled afterwards.                     *)
(***************************************************************************)
EXTENDS Integers, Sequences, FiniteSets, TLC

(***************************************************************************)
(* Bounds of the model.                                                    *)
(***************************************************************************)
\* Close() calls made over the handle's lifetime, by user code and by the
\* SignalWatcher together.
MaxCloses == 2
\* Delivery errors the Adapter emits over the handle's lifetime.
MaxErrs == 2
\* Readings of the wall clock are drawn from 0..MaxTime.
MaxTime == 1

None == <<>>
Some(v) == <<v>>

\* Close() returns without blocking, so which user goroutine makes a call
\* has no effect on it: user calls carry one label.
Users == {"user"}
Times == 0..MaxTime
\* The signals handleKeyInterrupt registers with signal.Notify.
Signals == {"SIGINT", "SIGTERM", "SIGQUIT"}
\* The errors an Adapter's Close() may return besides nil.
CloseErrors == {"close failed"}
\* Inputs of New: KafkaBrokers (nil, empty, or set), ErrHandler (nil or a
\* function), SaramaConfig (nil or an override).
BrokerLists == {None, Some(<<>>), Some(<<"localhost:9092">>)}
Configs == [KafkaBrokers: BrokerLists, ErrHandler: BOOLEAN, SaramaConfig: BOOLEAN]
\* The failures sarama.NewAsyncProducer may report.
ConnectErrors == {"kafka: client has run out of available brokers"}
\* Inputs of the message factories.
Topics == {"t1", "t2", "t3"}
Keys == {"", "k1", "k2"}
Values == {"", "v1", "v2"}

VARIABLES
    proc,              \* the process: "new", "failed", "running", or how it ended
    newResult,         \* what New returned: [handle, err], None before it ran
    connectAttempts,   \* calls of sarama.NewAsyncProducer
    isClosed,          \* Producer.isClosed
    isLoggingEnabled,  \* Producer.isLoggingEnabled
    errHandler,        \* the handler handleErrors captured (FALSE: nil)
    closeLog,          \* every Close() call so far: [caller, saw, ret]
    closeSeqs,         \* the goroutines Close() started, in order of start
    adapterCloseCalls, \* calls of the Adapter's Close()
    errChan,           \* the Adapter's Errors() channel: pending values
    errChanClosed,     \* whether the Adapter has closed Errors()
    emitted,           \* number of delivery errors the Adapter has emitted
    router,            \* the handleErrors goroutine: [pc, err]
    handlerCalls,      \* arguments of the calls of errHandler, in order
    sigChan,           \* handleKeyInterrupt's sigChan (capacity 1)
    watcher,           \* the handleKeyInterrupt goroutine: [pc, ch]
    ret                \* what the last query call of user code returned

vars == <<proc, newResult, connectAttempts, isClosed,
          isLoggingEnabled, errHandler, closeLog, closeSeqs,
          adapterCloseCalls, errChan, errChanClosed, emitted, router,
          handlerCalls, sigChan, watcher, ret>>

(***************************************************************************)
(* pkg/proxyerror                                                          *)
(***************************************************************************)
RECURSIVE Join(_, _)
\* strings.Join
Join(messages, sep) ==
    IF Len(messages) = 0 THEN ""
    ELSE IF Len(messages) = 1 THEN messages[1]
    ELSE messages[1] \o sep \o Join(Tail(messages), sep)

createError(code, messages, now) ==
    [Code |-> code, Time |-> now, Message |-> Join(messages, ": ")]

BrokersNotSetError(messages, now) == createError(1, messages, now)
ConnectionError(messages, now) == createError(2, messages, now)
ResourceCloseError(messages, now) == createError(3, messages, now)
ResourceClosedError(messages, now) == createError(4, messages, now)
ResourceWriteError(messages, now) == createError(5, messages, now)

(***************************************************************************)
(* pkg/producer: pure parts                                                *)
(***************************************************************************)
\* sarama.StringEncoder(s): the string as an Encoder.
StringEncoder(s) == [encoder |-> "StringEncoder", s |-> s]

\* Mutant: the key is set even when it is the empty string.
CreateKeyMessage_AlwaysKeyed(topic, key, value) ==
    [Topic |-> topic,
     Value |-> Some(StringEncoder(value)),
     Key   |-> Some(StringEncoder(key))]

CreateKeyMessage(topic, key, value) ==
    [Topic |-> topic,
     Value |-> Some(StringEncoder(value)),
     Key   |-> IF key # "" THEN Some(StringEncoder(key)) ELSE None]

CreateMessage(topic, value) == CreateKeyMessage(topic, "", value)

\* Mutant: only a nil broker list is rejected.
BrokersUnset_NilOnly(initConfig) == initConfig.KafkaBrokers = None

\* New's guard on the broker list.
BrokersUnset(initConfig) ==
    \/ initConfig.KafkaBrokers = None
    \/ Len(initConfig.KafkaBrokers[1]) = 0

\* Producer.IsClosed
IsClosed(closed) == closed

\* Mutant: the closed-flag does not gate the channel.
Input_Ungated(closed, now) == [ch |-> Some("producer.Input"), err |-> None]

\* Mutant: the gate is inverted.
Input_Inverted(closed, now) ==
    IF closed
    THEN [ch |-> Some("producer.Input"), err |-> None]
    ELSE [ch |-> None,
          err |-> Some(ResourceClosedError(<<"Producer already closed.">>, now))]

\* Producer.Input: the channel and the error it returns.
Input(closed, now) ==
    IF ~IsClosed(closed)
    THEN [ch |-> Some("producer.Input"), err |-> None]
    ELSE [ch |-> None,
          err |-> Some(ResourceClosedError(<<"Producer already closed.">>, now))]

(***************************************************************************)
(* Construction                                                            *)
(***************************************************************************)
Init ==
    /\ proc = "new"
    /\ newResult = None
    /\ connectAttempts = 0
    /\ isClosed = FALSE
    /\ isLoggingEnabled = FALSE
    /\ errHandler = FALSE
    /\ closeLog = <<>>
    /\ closeSeqs = <<>>
    /\ adapterCloseCalls = 0
    /\ errChan = <<>>
    /\ errChanClosed = FALSE
    /\ emitted = 0
    /\ router = [pc |-> "off", err |-> 0]
    /\ handlerCalls = <<>>
    /\ sigChan = <<>>
    /\ watcher = [pc |-> "off", ch |-> 0]
    /\ ret = [op |-> "none"]

\* New(initConfig).  connectErr is what sarama.NewAsyncProducer returns as
\* its error; now is the clock reading a created error is stamped with.
\* The sarama config New picks (the override, or its defaults) goes to
\* sarama.NewAsyncProducer only, whose outcome is connectErr.
New(initConfig, connectErr, now) ==
    /\ proc = "new"
    /\ IF BrokersUnset(initConfig)
       THEN /\ proc' = "failed"
            /\ newResult' = Some([handle |-> FALSE,
                   err |-> Some(BrokersNotSetError(<<"No Kafka Brokers set.">>, now))])
            /\ UNCHANGED <<connectAttempts, errHandler, router, watcher>>
       ELSE /\ connectAttempts' = connectAttempts + 1
            /\ IF connectErr # None
               THEN /\ proc' = "failed"
                    /\ newResult' = Some([handle |-> FALSE,
                           err |-> Some(ConnectionError(<<connectErr[1]>>, now))])
                    /\ UNCHANGED <<errHandler, router, watcher>>
               ELSE /\ proc' = "running"
                    /\ newResult' = Some([handle |-> TRUE, err |-> None])
                    \* handleKeyInterrupt, then handleErrors(ErrHandler)
                    /\ watcher' = [pc |-> "waiting", ch |-> 0]
                    /\ errHandler' = initConfig.ErrHandler
                    /\ router' = [pc |-> "range", err |-> 0]
    /\ isClosed' = FALSE
    /\ isLoggingEnabled' = FALSE
    /\ UNCHANGED <<closeLog, closeSeqs, adapterCloseCalls, errChan,
                   errChanClosed, emitted, handlerCalls, sigChan, ret>>

Construct ==
    \E initConfig \in Configs, now \in Times :
        \E connectErr \in {None} \cup {Some(e) : e \in ConnectErrors} :
            New(initConfig, connectErr, now)

(***************************************************************************)
(* Calls of user code on the handle                                        *)
(***************************************************************************)
\* Mutant: EnableLogging sets the wrong field.
EnableLogging_WrongFlag ==
    /\ proc = "running"
    /\ isClosed' = TRUE
    /\ UNCHANGED <<proc, newResult, connectAttempts, isLoggingEnabled,
                   errHandler, closeLog, closeSeqs, adapterCloseCalls,
                   errChan, errChanClosed, emitted, router, handlerCalls,
                   sigChan, watcher, ret>>

\* p.isLoggingEnabled = true
EnableLogging ==
    /\ proc = "running"
    /\ isLoggingEnabled' = TRUE
    /\ UNCHANGED <<proc, newResult, connectAttempts, isClosed,
                   errHandler, closeLog, closeSeqs, adapterCloseCalls,
                   errChan, errChanClosed, emitted, router, handlerCalls,
                   sigChan, watcher, ret>>

IsClosedCall ==
    /\ proc = "running"
    /\ ret' = [op |-> "IsClosed", out |-> IsClosed(isClosed)]
    /\ UNCHANGED <<proc, newResult, connectAttempts, isClosed,
                   isLoggingEnabled, errHandler, closeLog, closeSeqs,
                   adapterCloseCalls, errChan, errChanClosed, emitted, router,
                   handlerCalls, sigChan, watcher>>

InputCall ==
    /\ proc = "running"
    /\ \E now \in Times : ret' = [op |-> "Input", out |-> Input(isClosed, now)]
    /\ UNCHANGED <<proc, newResult, connectAttempts, isClosed,
                   isLoggingEnabled, errHandler, closeLog, closeSeqs,
                   adapterCloseCalls, errChan, errChanClosed, emitted, router,
                   handlerCalls, sigChan, watcher>>

CreateKeyMessageCall ==
    /\ proc = "running"
    /\ \E topic \in Topics, key \in Keys, value \in Values :
           ret' = [op |-> "CreateKeyMessage", topic |-> topic, key |-> key,
                   value |-> value, out |-> CreateKeyMessage(topic, key, value)]
    /\ UNCHANGED <<proc, newResult, connectAttempts, isClosed,
                   isLoggingEnabled, errHandler, closeLog, closeSeqs,
                   adapterCloseCalls, errChan, errChanClosed, emitted, router,
                   handlerCalls, sigChan, watcher>>

CreateMessageCall ==
    /\ proc = "running"
    /\ \E topic \in Topics, value \in Values :
           ret' = [op |-> "CreateMessage", topic |-> topic, key |-> "",
                   value |-> value, out |-> CreateMessage(topic, value)]
    /\ UNCHANGED <<proc, newResult, connectAttempts, isClosed,
                   isLoggingEnabled, errHandler, closeLog, closeSeqs,
                   adapterCloseCalls, errChan, errChanClosed, emitted, router,
                   handlerCalls, sigChan, watcher>>

(***************************************************************************)
(* Close                                                                   *)
(***************************************************************************)
\* Mutant: the result channel is unbuffered.
ResultChanCap_Unbuffered == 1 - 1

\* make(chan error, 1): the capacity of the channel Close() returns.
ResultChanCap == 1

\* The goroutine Close() starts, before its first step.
NewCloseSeq == [pc |-> "spawned", err |-> None, chan |-> <<>>, sent |-> <<>>]

\* Mutant: Close() without the check of the closed-flag.
Close_Unchecked(caller) ==
    /\ closeSeqs' = Append(closeSeqs, NewCloseSeq)
    /\ closeLog' = Append(closeLog,
           [caller |-> caller, saw |-> FALSE, ret |-> Len(closeSeqs) + 1])

\* Producer.Close, up to its return: the effect on closeLog and closeSeqs
\* of a call by caller.  The entry of closeLog records the closed-flag the
\* call read and the channel it returned (0: nil).
Close(caller) ==
    IF IsClosed(isClosed)
    THEN /\ closeLog' = Append(closeLog,
                [caller |-> caller, saw |-> TRUE, ret |-> 0])
         /\ UNCHANGED closeSeqs
    ELSE /\ closeSeqs' = Append(closeSeqs, NewCloseSeq)
         /\ closeLog' = Append(closeLog,
                [caller |-> caller, saw |-> FALSE, ret |-> Len(closeSeqs) + 1])

\* The Close() call the SignalWatcher is about to make: a signal is in
\* sigChan and the goroutine has not received one yet.
WatcherClosePending ==
    IF watcher.pc = "waiting" /\ sigChan # <<>> THEN 1 ELSE 0

\* User code calls Close() while the bound leaves room for the call, the
\* SignalWatcher's pending call counted in.
UserClose(u) ==
    /\ proc = "running"
    /\ Len(closeLog) + WatcherClosePending < MaxCloses
    /\ Close(u)
    /\ UNCHANGED <<proc, newResult, connectAttempts, isClosed,
                   isLoggingEnabled, errHandler, adapterCloseCalls, errChan,
                   errChanClosed, emitted, router, handlerCalls, sigChan,
                   watcher, ret>>

\* err := producer.Close()
\* The Adapter returns nil or an error; it closes its Errors() channel when
\* the close succeeds, and may or may not when it fails.
CloseSeqAdapterClose(i) ==
    /\ proc = "running"
    /\ closeSeqs[i].pc = "spawned"
    /\ adapterCloseCalls' = adapterCloseCalls + 1
    /\ \E err \in {None} \cup {Some(e) : e \in CloseErrors}, closes \in BOOLEAN :
           /\ err = None => closes
           /\ closeSeqs' = [closeSeqs EXCEPT ![i].pc = "returned", ![i].err = err]
           /\ errChanClosed' = (errChanClosed \/ closes)
    /\ UNCHANGED <<proc, newResult, connectAttempts, isClosed,
                   isLoggingEnabled, errHandler, closeLog, errChan, emitted,
                   router, handlerCalls, sigChan, watcher, ret>>

\* Mutant: a failed close is not reported on the result channel.
CloseSeqReport_DropsError(i) ==
    /\ proc = "running"
    /\ closeSeqs[i].pc = "returned"
    /\ IF closeSeqs[i].err # None /\ isLoggingEnabled
       THEN /\ proc' = "exit: close fatal"
            /\ UNCHANGED closeSeqs
       ELSE /\ closeSeqs' = [closeSeqs EXCEPT ![i].pc = "reported"]
            /\ UNCHANGED proc
    /\ UNCHANGED <<newResult, connectAttempts, isClosed,
                   isLoggingEnabled, errHandler, closeLog, adapterCloseCalls,
                   errChan, errChanClosed, emitted, router, handlerCalls,
                   sigChan, watcher, ret>>

\* Mutant: a failed close is reported and never fatal, whatever the logging
\* flag is.
CloseSeqReport_NeverFatal(i) ==
    /\ proc = "running"
    /\ closeSeqs[i].pc = "returned"
    /\ IF closeSeqs[i].err # None
       THEN /\ Len(closeSeqs[i].chan) < ResultChanCap
            /\ closeSeqs' = [closeSeqs EXCEPT
                   ![i].pc = "reported",
                   ![i].chan = Append(@, closeSeqs[i].err[1]),
                   ![i].sent = Append(@, closeSeqs[i].err[1])]
       ELSE closeSeqs' = [closeSeqs EXCEPT ![i].pc = "reported"]
    /\ UNCHANGED <<proc, newResult, connectAttempts, isClosed,
                   isLoggingEnabled, errHandler, closeLog, adapterCloseCalls,
                   errChan, errChanClosed, emitted, router, handlerCalls,
                   sigChan, watcher, ret>>

\* if err != nil { if p.isLoggingEnabled { log.Fatal } closeErrorChan <- err }
CloseSeqReport(i) ==
    /\ proc = "running"
    /\ closeSeqs[i].pc = "returned"
    /\ IF closeSeqs[i].err # None
       THEN IF isLoggingEnabled
            THEN /\ proc' = "exit: close fatal"
                 /\ UNCHANGED closeSeqs
            ELSE /\ Len(closeSeqs[i].chan) < ResultChanCap
                 /\ closeSeqs' = [closeSeqs EXCEPT
                        ![i].pc = "reported",
                        ![i].chan = Append(@, closeSeqs[i].err[1]),
                        ![i].sent = Append(@, closeSeqs[i].err[1])]
                 /\ UNCHANGED proc
       ELSE /\ closeSeqs' = [closeSeqs EXCEPT ![i].pc = "reported"]
            /\ UNCHANGED proc
    /\ UNCHANGED <<newResult, connectAttempts, isClosed,
                   isLoggingEnabled, errHandler, closeLog, adapterCloseCalls,
                   errChan, errChanClosed, emitted, router, handlerCalls,
                   sigChan, watcher, ret>>

\* Mutant: the closed-flag is written before the Adapter is closed.
CloseSeqMarkClosed_Early(i) ==
    /\ proc = "running"
    /\ closeSeqs[i].pc = "spawned"
    /\ isClosed' = TRUE
    /\ UNCHANGED <<proc, newResult, connectAttempts, isLoggingEnabled, errHandler, closeLog, closeSeqs,
                   adapterCloseCalls, errChan, errChanClosed, emitted, router,
                   handlerCalls, sigChan, watcher, ret>>

\* if p.isLoggingEnabled { log.Println }; p.isClosed = true
CloseSeqMarkClosed(i) ==
    /\ proc = "running"
    /\ closeSeqs[i].pc = "reported"
    /\ isClosed' = TRUE
    /\ closeSeqs' = [closeSeqs EXCEPT ![i].pc = "done"]
    /\ UNCHANGED <<proc, newResult, connectAttempts, isLoggingEnabled, errHandler, closeLog, adapterCloseCalls,
                   errChan, errChanClosed, emitted, router, handlerCalls,
                   sigChan, watcher, ret>>

CloseSeqStep(i) ==
    /\ i \in DOMAIN closeSeqs
    /\ \/ CloseSeqAdapterClose(i)
       \/ CloseSeqReport(i)
       \/ CloseSeqMarkClosed(i)

(***************************************************************************)
(* ErrorRouter: the goroutine of handleErrors                              *)
(***************************************************************************)
\* The Adapter puts a delivery error on Errors(); errors are numbered in
\* the order of emission.
AdapterEmitError ==
    /\ proc = "running"
    /\ ~errChanClosed
    /\ emitted < MaxErrs
    /\ emitted' = emitted + 1
    /\ errChan' = Append(errChan, emitted + 1)
    /\ UNCHANGED <<proc, newResult, connectAttempts, isClosed,
                   isLoggingEnabled, errHandler, closeLog, closeSeqs,
                   adapterCloseCalls, errChanClosed, router, handlerCalls,
                   sigChan, watcher, ret>>

\* for err := range producer.Errors()
\* Mutant: the loop also ends once the handle's flag is true.
RouterReceive_StopsWhenClosed ==
    /\ proc = "running"
    /\ router.pc = "range"
    /\ IF isClosed
       THEN /\ router' = [pc |-> "done", err |-> 0]
            /\ UNCHANGED errChan
       ELSE IF errChan # <<>>
            THEN /\ router' = [pc |-> "got", err |-> Head(errChan)]
                 /\ errChan' = Tail(errChan)
            ELSE /\ errChanClosed
                 /\ router' = [pc |-> "done", err |-> 0]
                 /\ UNCHANGED errChan
    /\ UNCHANGED <<proc, newResult, connectAttempts, isClosed,
                   isLoggingEnabled, errHandler, closeLog, closeSeqs,
                   adapterCloseCalls, errChanClosed, emitted, handlerCalls,
                   sigChan, watcher, ret>>

RouterReceive ==
    /\ proc = "running"
    /\ router.pc = "range"
    /\ IF errChan # <<>>
       THEN /\ router' = [pc |-> "got", err |-> Head(errChan)]
            /\ errChan' = Tail(errChan)
       ELSE /\ errChanClosed
            /\ router' = [pc |-> "done", err |-> 0]
            /\ UNCHANGED errChan
    /\ UNCHANGED <<proc, newResult, connectAttempts, isClosed,
                   isLoggingEnabled, errHandler, closeLog, closeSeqs,
                   adapterCloseCalls, errChanClosed, emitted, handlerCalls,
                   sigChan, watcher, ret>>

\* Mutant: the error is dropped instead of handed to the handler.
RouterDispatch_Drops ==
    /\ proc = "running"
    /\ router.pc = "got"
    /\ router' = [pc |-> "range", err |-> 0]
    /\ UNCHANGED <<proc, newResult, connectAttempts, isClosed,
                   isLoggingEnabled, errHandler, closeLog, closeSeqs,
                   adapterCloseCalls, errChan, errChanClosed, emitted,
                   handlerCalls, sigChan, watcher, ret>>

\* Mutant: the handler is called before the logging flag is looked at.
RouterDispatch_HandlerFirst ==
    /\ proc = "running"
    /\ router.pc = "got"
    /\ errHandler
    /\ handlerCalls' = Append(handlerCalls, router.err)
    /\ IF isLoggingEnabled
       THEN proc' = "exit: router fatal" /\ UNCHANGED router
       ELSE router' = [pc |-> "range", err |-> 0] /\ UNCHANGED proc
    /\ UNCHANGED <<newResult, connectAttempts, isClosed,
                   isLoggingEnabled, errHandler, closeLog, closeSeqs,
                   adapterCloseCalls, errChan, errChanClosed, emitted,
                   sigChan, watcher, ret>>

\* if p.isLoggingEnabled { log.Fatalln }; errHandler(err)
RouterDispatch ==
    /\ proc = "running"
    /\ router.pc = "got"
    /\ IF isLoggingEnabled
       THEN /\ proc' = "exit: router fatal"
            /\ UNCHANGED <<router, handlerCalls>>
       ELSE IF ~errHandler
            THEN /\ proc' = "panic: nil handler"
                 /\ UNCHANGED <<router, handlerCalls>>
            ELSE /\ handlerCalls' = Append(handlerCalls, router.err)
                 /\ router' = [pc |-> "range", err |-> 0]
                 /\ UNCHANGED proc
    /\ UNCHANGED <<newResult, connectAttempts, isClosed,
                   isLoggingEnabled, errHandler, closeLog, closeSeqs,
                   adapterCloseCalls, errChan, errChanClosed, emitted,
                   sigChan, watcher, ret>>

(***************************************************************************)
(* SignalWatcher: the goroutine of handleKeyInterrupt                      *)
(***************************************************************************)
\* The runtime relays a registered signal to sigChan; a signal that finds
\* the channel full is dropped, which changes nothing.  A signal that would
\* make the SignalWatcher call Close() arrives while the bound leaves room
\* for that call.  The goroutine
\* discards the value it receives, so the channel holds a token, not s.
Signal(s) ==
    /\ proc = "running"
    /\ s \in Signals
    /\ watcher.pc = "waiting" => Len(closeLog) < MaxCloses
    /\ Len(sigChan) < 1
    /\ sigChan' = Append(sigChan, "os.Signal")
    /\ UNCHANGED <<proc, newResult, connectAttempts, isClosed,
                   isLoggingEnabled, errHandler, closeLog, closeSeqs,
                   adapterCloseCalls, errChan, errChanClosed, emitted, router,
                   handlerCalls, watcher, ret>>

\* Mutant: the watcher calls Close() without waiting for a signal.
WatcherOnSignal_NoWait ==
    /\ proc = "running"
    /\ watcher.pc = "waiting"
    /\ Close("watcher")
    /\ watcher' = [pc |-> "recv", ch |-> closeLog'[Len(closeLog')].ret]
    /\ UNCHANGED <<proc, newResult, connectAttempts, isClosed,
                   isLoggingEnabled, errHandler, adapterCloseCalls, errChan,
                   errChanClosed, emitted, router, handlerCalls, sigChan, ret>>

\* <-sigChan; log.Println; p.Close()
WatcherOnSignal ==
    /\ proc = "running"
    /\ watcher.pc = "waiting"
    /\ sigChan # <<>>
    /\ sigChan' = Tail(sigChan)
    /\ Close("watcher")
    /\ watcher' = [pc |-> "recv", ch |-> closeLog'[Len(closeLog')].ret]
    /\ UNCHANGED <<proc, newResult, connectAttempts, isClosed,
                   isLoggingEnabled, errHandler, adapterCloseCalls, errChan,
                   errChanClosed, emitted, router, handlerCalls, ret>>

\* Mutant: a receive from the nil channel yields a nil error at once, as a
\* receive from a closed channel would, and closeError.Error() panics.
WatcherOnCloseResult_NilChanYieldsNil ==
    /\ proc = "running"
    /\ watcher.pc = "recv"
    /\ IF watcher.ch = 0
       THEN /\ proc' = "panic: nil close error"
            /\ UNCHANGED closeSeqs
       ELSE /\ closeSeqs[watcher.ch].chan # <<>>
            /\ closeSeqs' = [closeSeqs EXCEPT ![watcher.ch].chan = Tail(@)]
            /\ proc' = "exit: watcher fatal"
    /\ watcher' = [watcher EXCEPT !.pc = "fatal"]
    /\ UNCHANGED <<newResult, connectAttempts, isClosed,
                   isLoggingEnabled, errHandler, closeLog, adapterCloseCalls,
                   errChan, errChanClosed, emitted, router, handlerCalls,
                   sigChan, ret>>

\* closeError := <-(the channel Close returned); log.Fatalln(closeError.Error())
\* A receive from the nil channel, or from a channel nothing was sent on,
\* blocks.
WatcherOnCloseResult ==
    /\ proc = "running"
    /\ watcher.pc = "recv"
    /\ watcher.ch # 0
    /\ closeSeqs[watcher.ch].chan # <<>>
    /\ closeSeqs' = [closeSeqs EXCEPT ![watcher.ch].chan = Tail(@)]
    /\ watcher' = [watcher EXCEPT !.pc = "fatal"]
    /\ proc' = "exit: watcher fatal"
    /\ UNCHANGED <<newResult, connectAttempts, isClosed,
                   isLoggingEnabled, errHandler, closeLog, adapterCloseCalls,
                   errChan, errChanClosed, emitted, router, handlerCalls,
                   sigChan, ret>>

(***************************************************************************)
(* Specifications                                                          *)
(***************************************************************************)
Next ==
    \/ Construct
    \/ EnableLogging
    \/ IsClosedCall
    \/ InputCall
    \/ \E u \in Users : UserClose(u)
    \/ \E i \in DOMAIN closeSeqs : CloseSeqStep(i)
    \/ AdapterEmitError
    \/ RouterReceive
    \/ RouterDispatch
    \/ \E s \in Signals : Signal(s)
    \/ WatcherOnSignal
    \/ WatcherOnCloseResult

Spec == Init /\ [][Next]_vars

\* The goroutines Close() starts are scheduled fairly and the Adapter's
\* Close() returns: a close sequence that can take a step takes it.
FairSpec ==
    /\ Spec
    /\ \A i \in 1..MaxCloses : WF_vars(CloseSeqStep(i))

\* The message factories, on a handle New returned.
NextFactory ==
    \/ Construct
    \/ EnableLogging
    \/ CreateKeyMessageCall
    \/ CreateMessageCall

SpecFactory == Init /\ [][NextFactory]_vars

\* The goroutine handleErrors starts is scheduled fairly: when it can
\* receive or dispatch, it does.
FairRouterSpec ==
    /\ Spec
    /\ WF_vars(RouterReceive)
    /\ WF_vars(RouterDispatch)

(***************************************************************************)
(* Claims                                                                  *)
(***************************************************************************)
RECURSIVE SentOn(_)
\* The number of values ever sent on the result channels of seqs.
SentOn(seqs) ==
    IF seqs = <<>> THEN 0 ELSE Len(Head(seqs).sent) + SentOn(Tail(seqs))

LastClose == closeLog[Len(closeLog)]

\* C1: however many Close() calls are made on an open handle, by user code
\* and by the SignalWatcher, the Adapter's Close() is called at most once,
\* exactly once when every close sequence has finished, and at most one
\* error is ever sent on the result channels.
C1_AdapterClosedOnce ==
    /\ adapterCloseCalls <= 1
    /\ SentOn(closeSeqs) <= 1
    /\ (closeSeqs # <<>> /\ \A i \in DOMAIN closeSeqs : closeSeqs[i].pc = "done")
           => adapterCloseCalls = 1

\* C2: an Input() call made while the closed-flag is true returns the nil
\* channel and a ResourceClosed error (code 4), and such a call can always
\* be made (it neither blocks nor panics).
C2_InputAfterClosed ==
    /\ [][(isClosed /\ InputCall) =>
            /\ ret'.out.ch = None
            /\ ret'.out.err # None
            /\ ret'.out.err[1].Code = 4]_vars
    /\ []((proc = "running" /\ isClosed) => ENABLED InputCall)

C2_Witness ==
    /\ isClosed
    /\ ret.op = "Input"
    /\ ret.out.ch = None
    /\ ret.out.err[1].Code = 4

\* C3: a second Close() by user code that immediately follows a first one
\* made on an open handle, the first one's close sequence still running,
\* observes the closed-flag true and starts no close sequence, so that the
\* Adapter's Close() is called once.
C3_SecondCloseIsNoOp ==
    [][( /\ closeLog # <<>>
         /\ LastClose.caller \in Users
         /\ ~LastClose.saw
         /\ closeSeqs[LastClose.ret].pc # "done"
         /\ \E u \in Users : UserClose(u) )
       => ( /\ closeLog'[Len(closeLog')].saw
            /\ closeSeqs' = closeSeqs )]_vars

\* What the result channel of a close sequence has carried once the
\* sequence is past its report: nothing after a clean close, the Adapter's
\* error after a failed one.
ResultCarried(seq) == IF seq.err = None THEN <<>> ELSE <<seq.err[1]>>

\* C4: once Close() has started a close sequence, the closed-flag
\* eventually becomes true, whether the Adapter's Close() succeeds or fails,
\* in every behaviour in which the process keeps running (it is ended only
\* by a log.Fatal or a panic of some goroutine); a result channel never
\* carries more than one value, carries no value after a clean close, and
\* carries exactly the Adapter's error after a failed one.
C4_CloseEventuallyCloses ==
    /\ (closeSeqs # <<>>) ~> (isClosed \/ proc # "running")
    /\ [][\A i \in DOMAIN closeSeqs' :
            /\ Len(closeSeqs'[i].sent) <= 1
            /\ closeSeqs'[i].sent \in {<<>>, ResultCarried(closeSeqs'[i])}
            /\ closeSeqs'[i].pc \in {"reported", "done"} =>
                   closeSeqs'[i].sent = ResultCarried(closeSeqs'[i])]_vars

\* A failed close without logging: the flag is true and the channel of the
\* sequence holds the Adapter's error.
C4_Witness ==
    /\ proc = "running"
    /\ ~isLoggingEnabled
    /\ isClosed
    /\ Len(closeSeqs) = 1
    /\ closeSeqs[1].pc = "done"
    /\ closeSeqs[1].err = Some("close failed")
    /\ closeSeqs[1].chan = <<"close failed">>

\* C5: a Close() call that finds the closed-flag true returns the nil
\* channel, starts no close sequence, calls no Adapter Close(), sends no
\* error, and leaves the closed-flag and the logging flag as they were.
C5_CloseWhenClosedIsNoOp ==
    [][(isClosed /\ closeLog' # closeLog) =>
            /\ closeLog'[Len(closeLog')].ret = 0
            /\ closeSeqs' = closeSeqs
            /\ adapterCloseCalls' = adapterCloseCalls
            /\ isClosed' = isClosed
            /\ isLoggingEnabled' = isLoggingEnabled]_vars

C5_Witness ==
    \E i \in DOMAIN closeLog :
        /\ closeLog[i].saw
        /\ closeLog[i].ret = 0
        /\ isClosed

\* C6: New with a nil or empty broker list returns no handle and a
\* BrokersNotSet error (code 1), whatever the handler and the config
\* override are; it attempts no connection and starts neither goroutine.
C6_NoBrokersFailsConstruction ==
    [][proc = "new" =>
         \A initConfig \in Configs, now \in Times :
           \A connectErr \in {None} \cup {Some(e) : e \in ConnectErrors} :
             ( /\ initConfig.KafkaBrokers \in {None, Some(<<>>)}
               /\ New(initConfig, connectErr, now) )
             => ( /\ newResult'[1].handle = FALSE
                  /\ newResult'[1].err # None
                  /\ newResult'[1].err[1].Code = 1
                  /\ proc' = "failed"
                  /\ connectAttempts' = 0
                  /\ watcher'.pc = "off"
                  /\ router'.pc = "off" )]_vars

C6_Witness ==
    /\ proc = "failed"
    /\ newResult[1].err[1].Code = 1
    /\ connectAttempts = 0

\* What the ErrorRouter holds between its receive and its dispatch.
RouterInFlight == IF router.pc = "got" THEN <<router.err>> ELSE <<>>

\* C7: with logging disabled and a handler supplied, the handler is called
\* once for every delivery error, in the order of emission and with the
\* error received, and the ErrorRouter does not end the process.
C7_HandlerCalledOncePerError ==
    /\ []((proc # "new" /\ errHandler /\ ~isLoggingEnabled) =>
            /\ handlerCalls \o RouterInFlight \o errChan
                   = [k \in 1..emitted |-> k]
            /\ proc \notin {"exit: router fatal", "panic: nil handler"})
    /\ [][(errHandler /\ ~isLoggingEnabled /\ RouterDispatch) =>
            /\ handlerCalls' = Append(handlerCalls, router.err)
            /\ proc' = "running"]_vars

C7_Witness ==
    /\ proc = "running"
    /\ errHandler
    /\ ~isLoggingEnabled
    /\ handlerCalls = <<1, 2>>

\* C8: with logging enabled, the dispatch of a delivery error ends the
\* process and does not call the handler, whether one was supplied or not.
C8_LoggingIsFatal ==
    [][(router.pc = "got" /\ isLoggingEnabled /\ RouterDispatch) =>
            /\ proc' = "exit: router fatal"
            /\ handlerCalls' = handlerCalls]_vars

C8_Witness ==
    /\ proc = "exit: router fatal"
    /\ isLoggingEnabled
    /\ errHandler
    /\ router.err = 1
    /\ handlerCalls = <<>>

\* C9: a factory returns a message with the topic and value it was given,
\* whose key is absent exactly when the key given is the empty string and is
\* the key given otherwise; CreateMessage(topic, value) returns what
\* CreateKeyMessage(topic, "", value) returns.
C9_FactoryRoundTrip ==
    (ret.op \in {"CreateKeyMessage", "CreateMessage"}) =>
        /\ ret.out.Topic = ret.topic
        /\ ret.out.Value # None
        /\ ret.out.Value[1].s = ret.value
        /\ (ret.out.Key = None) <=> (ret.key = "")
        /\ ret.key # "" => ret.out.Key[1].s = ret.key
        /\ ret.op = "CreateMessage" =>
               /\ ret.key = ""
               /\ ret.out = CreateKeyMessage(ret.topic, "", ret.value)

C9_Witness ==
    /\ ret.op = "CreateKeyMessage"
    /\ ret.key = "k1"
    /\ ret.out.Key = Some(StringEncoder("k1"))

\* C10: whenever the closed-flag is true, a close sequence has got past its
\* call of the Adapter's Close(); the flag is written by a sequence whose
\* call has returned, so it stays false from the Close() call until then.
C10_FlagAfterAdapterClose ==
    /\ [](isClosed =>
            /\ adapterCloseCalls >= 1
            /\ \E i \in DOMAIN closeSeqs : closeSeqs[i].pc = "done")
    /\ [][(~isClosed /\ isClosed') =>
            \E i \in DOMAIN closeSeqs :
                /\ closeSeqs[i].pc = "reported"
                /\ closeSeqs'[i].pc = "done"]_vars
    /\ []((closeSeqs # <<>> /\ adapterCloseCalls = 0) => ~isClosed)

\* A concurrent IsClosed() returned false inside the window.
C10_Witness ==
    /\ ret.op = "IsClosed"
    /\ ret.out = FALSE
    /\ closeSeqs # <<>>
    /\ \A i \in DOMAIN closeSeqs : closeSeqs[i].pc = "returned"
    /\ ~isClosed

\* C11: a close sequence never blocks on its report: its channel has room
\* for the one value the sequence sends, so the report step can be taken
\* whenever the sequence has reached it and the flag write whenever the
\* report is done, with nobody receiving from the channel.
C11_ReportNeverBlocks ==
    \A i \in DOMAIN closeSeqs :
        /\ Len(closeSeqs[i].sent) <= 1
        /\ Len(closeSeqs[i].chan) <= ResultChanCap
        /\ proc = "running" =>
            /\ closeSeqs[i].pc = "returned" => ENABLED CloseSeqReport(i)
            /\ closeSeqs[i].pc = "reported" => ENABLED CloseSeqMarkClosed(i)

\* A sequence started by user code reported its error and wrote the flag
\* while the value stayed in the channel, unread.
C11_Witness ==
    \E k \in DOMAIN closeLog :
        /\ closeLog[k].caller \in Users
        /\ closeLog[k].ret # 0
        /\ closeSeqs[closeLog[k].ret].pc = "done"
        /\ closeSeqs[closeLog[k].ret].chan = <<"close failed">>
        /\ watcher.pc = "waiting"

\* C12: when the Adapter's Close() has failed, the report step of the close
\* sequence ends the process if logging is enabled, and if it is disabled
\* leaves the process running and sends the error on the result channel;
\* the process is never ended from within a close sequence otherwise.
C12_CloseFailureFatalIffLogging ==
    /\ [][\A i \in DOMAIN closeSeqs :
            (closeSeqs[i].err # None /\ CloseSeqReport(i)) =>
                IF isLoggingEnabled
                THEN /\ proc' = "exit: close fatal"
                     /\ closeSeqs'[i].sent = <<>>
                ELSE /\ proc' = "running"
                     /\ closeSeqs'[i].sent = <<closeSeqs[i].err[1]>>
                     /\ closeSeqs'[i].chan = <<closeSeqs[i].err[1]>>]_vars
    /\ [](proc = "exit: close fatal" =>
            /\ isLoggingEnabled
            /\ \E i \in DOMAIN closeSeqs :
                   closeSeqs[i].pc = "returned" /\ closeSeqs[i].err # None)

C12_Witness ==
    /\ proc = "exit: close fatal"
    /\ isLoggingEnabled
    /\ \E i \in DOMAIN closeSeqs : closeSeqs[i].err = Some("close failed")

\* The Close() calls made by the SignalWatcher so far.
WatcherCalls ==
    Cardinality({k \in DOMAIN closeLog : closeLog[k].caller = "watcher"})

\* C13: the SignalWatcher calls Close() only by taking a delivered signal
\* out of its signal channel, calls it at most once, and then waits on the
\* channel that call returned; the only step it takes after that is the
\* receipt of a close error from that channel, which ends the process.
C13_WatcherClosesOnceAfterSignal ==
    /\ [](WatcherCalls <= 1)
    /\ [](watcher.pc \in {"off", "waiting"} => WatcherCalls = 0)
    /\ [][WatcherCalls' # WatcherCalls =>
            /\ sigChan # <<>>
            /\ sigChan' = Tail(sigChan)
            /\ watcher.pc = "waiting"
            /\ watcher'.pc = "recv"
            /\ closeLog'[Len(closeLog')].caller = "watcher"
            /\ watcher'.ch = closeLog'[Len(closeLog')].ret]_vars
    /\ [][(watcher.pc = "recv" /\ watcher' # watcher) =>
            /\ watcher.ch # 0
            /\ closeSeqs[watcher.ch].chan # <<>>
            /\ Head(closeSeqs[watcher.ch].chan) \in CloseErrors
            /\ closeSeqs'[watcher.ch].chan = Tail(closeSeqs[watcher.ch].chan)
            /\ proc' = "exit: watcher fatal"]_vars
    /\ [](proc = "exit: watcher fatal" => watcher.pc = "fatal")

\* The watcher received the error of the close it started and ended the
\* process.
C13_Witness ==
    /\ proc = "exit: watcher fatal"
    /\ WatcherCalls = 1
    /\ watcher.ch # 0
    /\ closeSeqs[watcher.ch].sent = <<"close failed">>

\* C14: when the SignalWatcher's Close() call found the handle closed and
\* got the nil channel, the watcher takes no further step: it receives no
\* value, so it has no nil error to call Error() on; whatever the watcher
\* receives anywhere is a non-nil error, and the only way the watcher ends
\* is log.Fatalln after a received error.
C14_WatcherNeverDerefsNil ==
    /\ [][(watcher.pc = "recv" /\ watcher.ch = 0) => watcher' = watcher]_vars
    /\ [](watcher.pc = "recv" /\ watcher.ch = 0 =>
            ~ ENABLED WatcherOnCloseResult)
    /\ [](\A i \in DOMAIN closeSeqs :
            \A k \in DOMAIN closeSeqs[i].chan :
                closeSeqs[i].chan[k] \in CloseErrors)
    /\ [](watcher.pc = "fatal" => proc = "exit: watcher fatal")

\* A signal was taken after the flag was written: the watcher's Close()
\* saw the handle closed and the watcher waits on the nil channel.
C14_Witness ==
    /\ proc = "running"
    /\ isClosed
    /\ watcher.pc = "recv"
    /\ watcher.ch = 0
    /\ closeLog[Len(closeLog)].caller = "watcher"
    /\ closeLog[Len(closeLog)].saw

\* C15: the ErrorRouter ends only when the Adapter's error channel is
\* closed and drained; while the process runs it can always take a queued
\* error, whatever the closed-flag is, and with logging disabled and a
\* handler it returns to receiving after each error; once the channel is
\* closed the router ends unless the process ends first.
C15_RouterDrainsUntilChannelClosed ==
    /\ [](router.pc = "done" => errChanClosed /\ errChan = <<>>)
    /\ [][(router.pc # "done" /\ router'.pc = "done") =>
            errChanClosed /\ errChan = <<>>]_vars
    /\ [](proc = "running" /\ router.pc = "range" /\ errChan # <<>> =>
            ENABLED RouterReceive)
    /\ [][(errHandler /\ ~isLoggingEnabled /\ router.pc = "got"
             /\ router' # router) =>
            router'.pc = "range" /\ proc' = "running"]_vars
    /\ (errChanClosed ~> (router.pc = "done" \/ proc # "running"))

\* The flag is true, the Adapter left its error channel open, and the
\* router has taken an error and handled one before.
C15_Witness ==
    /\ proc = "running"
    /\ isClosed
    /\ ~errChanClosed
    /\ router.pc = "got"
    /\ handlerCalls # <<>>

\* C16: the flag is false when New returns the handle, never goes from
\* true to false, and changes only in the last step of a close sequence;
\* a step that changes what another operation writes (the logging flag by
\* EnableLogging, the returned value by IsClosed and Input, the call log by
\* Close() itself, the error channel, the router's and the watcher's
\* position, the signal channel) leaves it as it was, and in no reachable
\* state of a handle can a call of a message factory change it.
C16_FlagWrittenOnlyByCloseSeq ==
    /\ [](proc = "new" => ~isClosed)
    /\ [][Construct => ~isClosed']_vars
    /\ [][isClosed => isClosed']_vars
    /\ [][isClosed' # isClosed =>
            \E i \in DOMAIN closeSeqs : CloseSeqMarkClosed(i)]_vars
    /\ [][(\/ isLoggingEnabled' # isLoggingEnabled
           \/ ret' # ret
           \/ closeLog' # closeLog
           \/ errChan' # errChan
           \/ router' # router
           \/ handlerCalls' # handlerCalls
           \/ sigChan' # sigChan
           \/ watcher' # watcher) => isClosed' = isClosed]_vars
    /\ [](proc = "running" =>
            /\ ENABLED CreateKeyMessageCall
            /\ ENABLED CreateMessageCall
            /\ ~ ENABLED (CreateKeyMessageCall /\ isClosed' # isClosed)
            /\ ~ ENABLED (CreateMessageCall /\ isClosed' # isClosed))

\* The flag is true and logging was enabled on the same handle.
C16_Witness ==
    /\ proc = "running"
    /\ isClosed
    /\ isLoggingEnabled
    /\ \E i \in DOMAIN closeSeqs : closeSeqs[i].pc = "done"

\* C17 as claimed: no Input() call made after the Adapter's Close() has
\* returned hands out the channel.
C17_NoInputAfterAdapterClose ==
    [][(adapterCloseCalls >= 1 /\ InputCall) => ret'.out.ch = None]_vars

\* C17 amended: Input() hands out the channel exactly when it reads the
\* closed-flag false; after the Adapter's Close() has returned it can still
\* do so, but only while a close sequence stands between that return and
\* its write of the flag, and never once a sequence has finished.
C17_InputGatedByFlag ==
    /\ [][InputCall => (ret'.out.ch # None <=> ~isClosed)]_vars
    /\ [][(adapterCloseCalls >= 1 /\ InputCall /\ ret'.out.ch # None) =>
            /\ \E i \in DOMAIN closeSeqs :
                   closeSeqs[i].pc \in {"returned", "reported"}
            /\ \A i \in DOMAIN closeSeqs : closeSeqs[i].pc # "done"]_vars

\* Input() handed out the channel, the Adapter is closed, and a close
\* sequence has reported but not yet written the flag.
C17_Witness ==
    /\ proc = "running"
    /\ ret.op = "Input"
    /\ ret.out.ch # None
    /\ adapterCloseCalls >= 1
    /\ ~isClosed
    /\ \E i \in DOMAIN closeSeqs : closeSeqs[i].pc = "reported"

\* C18: the ErrorRouter never calls a nil handler: the process never
\* panics on the handler call.
C18_RouterNeverCallsNilHandler == proc # "panic: nil handler"

\* C19: a SignalWatcher waiting for a close result is never stuck: it does
\* not wait on the nil channel, nor on a channel whose close sequence has
\* passed its report step and left the channel empty.
C19_WatcherWaitCanEnd ==
    (proc = "running" /\ watcher.pc = "recv") =>
        /\ watcher.ch # 0
        /\ closeSeqs[watcher.ch].pc \in {"reported", "done"} =>
               closeSeqs[watcher.ch].chan # <<>>

=============================================================================
